---- MODULE Spec2Model ----
(***************************************************************************)
(* A model of the catalog scripts of console-media-tools:                  *)
(*   catalog_files.py            (the catalog pipeline, prog = "catalog")  *)
(*   update_catalog_locations.py (the reconciler,       prog = "update")   *)
(*   find_noncatalog_files.py    (the classifier,       prog = "find")     *)
(*                                                                         *)
(* Strings of the program (paths, file names) are sequences of             *)
(* one-character strings, so that count('/'), os.path.split, os.path.join, *)
(* str.split and the regular expression of IsPortableFilename are computed *)
(* as the code computes them.  A Python dict is a sequence of records with *)
(* pairwise distinct keys (dicts keep insertion order).                    *)
(***************************************************************************)
EXTENDS Integers, Sequences, FiniteSets, TLC

VARIABLES
    prog,                 \* which script runs
    pc,                   \* the position of the script
    disk,                 \* full path -> content id, for every file that exists
    catalogFile,          \* the persisted catalog document (catalog.db)
    wipFile,              \* the persisted work-in-progress document (wip.db)
    sideDocs,             \* renamed.db / new.db of the classifier
    catalog,              \* in-memory catalog dict: sequence of [h, f, p, s]
    catalog_index,        \* dict: full path -> hash
    catalog_list,         \* reconciler: list of [h, f, p, s]
    new_data,             \* list of scan records [h, f, p, s]
    renamed,              \* classifier: list of records whose hash is cataloged
    duplicates,           \* list of groups, each a list of candidates
    duplicates_found,     \* reconciler: list of reported full paths
    dr_favored_paths,     \* list of favored paths
    to_be_removed,        \* list of full paths (PendingRemoval)
    current_position,     \* review cursor
    remove_catalog_dupes, \* run mode flag
    scanPos,              \* index of the next file of os.walk
    hashCalls,            \* full paths hash_file was called on (in call order)
    deleteChoice,         \* answer given to the delete confirmation ("?" = not asked)
    commitChoice,         \* answer given to the commit confirmation ("?" = not asked)
    atStart               \* disk and documents as the script found them (never changes)

vars == <<prog, pc, disk, catalogFile, wipFile, sideDocs, catalog, catalog_index,
          catalog_list, new_data, renamed, duplicates, duplicates_found,
          dr_favored_paths, to_be_removed, current_position, remove_catalog_dupes,
          scanPos, hashCalls, deleteChoice, commitChoice, atStart>>

(***************************************************************************)
(* Characters and strings                                                  *)
(***************************************************************************)
Slash == "/"

\* str.isalpha() on the characters the model uses (ASCII letters)
Alpha ==
    {"a","b","c","d","e","f","g","h","i","j","k","l","m","n","o","p","q","r","s",
     "t","u","v","w","x","y","z","A","B","C","D","E","F","G","H","I","J","K","L",
     "M","N","O","P","Q","R","S","T","U","V","W","X","Y","Z"}

Digit == {"0","1","2","3","4","5","6","7","8","9"}

\* the character class [a-zA-Z0-9\._\-] of IsPortableFilename
PortableChar == Alpha \cup Digit \cup {".", "_", "-"}

\* s.count(ch)
Count(s, ch) == Cardinality({i \in 1..Len(s) : s[i] = ch})

\* index of the last occurrence of ch in s, 0 when there is none (str.rfind + 1)
LastIndexOf(s, ch) ==
    LET hits == {i \in 1..Len(s) : s[i] = ch}
    IN  IF hits = {} THEN 0 ELSE CHOOSE i \in hits : \A j \in hits : j <= i

\* s.rstrip('/')
RECURSIVE RStripSlash(_)
RStripSlash(s) ==
    IF s # <<>> /\ s[Len(s)] = Slash THEN RStripSlash(SubSeq(s, 1, Len(s) - 1)) ELSE s

\* s.lstrip('/')
RECURSIVE LStripSlash(_)
LStripSlash(s) ==
    IF s # <<>> /\ s[1] = Slash THEN LStripSlash(Tail(s)) ELSE s

\* posixpath.split: (head, tail) around the last '/'; trailing slashes are
\* stripped from head unless head is nothing but slashes
PathSplit(fp) ==
    LET i    == LastIndexOf(fp, Slash)
        head == SubSeq(fp, 1, i)
        tail == SubSeq(fp, i + 1, Len(fp))
    IN  [head |-> IF head # <<>> /\ RStripSlash(head) # <<>> THEN RStripSlash(head) ELSE head,
         tail |-> tail]

\* posixpath.join(a, b) for two components
PathJoin(a, b) ==
    IF b # <<>> /\ b[1] = Slash THEN b
    ELSE IF a = <<>> \/ a[Len(a)] = Slash THEN a \o b
    ELSE a \o <<Slash>> \o b

\* s.split('/'): the list of chunks between slashes ("" splits to [""])
RECURSIVE SplitSlash(_)
SplitSlash(s) ==
    LET hits == {i \in 1..Len(s) : s[i] = Slash}
    IN  IF hits = {} THEN <<s>>
        ELSE LET i == CHOOSE k \in hits : \A j \in hits : k <= j
             IN  <<SubSeq(s, 1, i - 1)>> \o SplitSlash(SubSeq(s, i + 1, Len(s)))

\* "/".join(chunks)
RECURSIVE JoinSlash(_)
JoinSlash(chunks) ==
    IF chunks = <<>> THEN <<>>
    ELSE IF Len(chunks) = 1 THEN chunks[1]
    ELSE chunks[1] \o <<Slash>> \o JoinSlash(Tail(chunks))

\* s.endswith(suffix)
EndsWith(s, suffix) ==
    /\ Len(s) >= Len(suffix)
    /\ SubSeq(s, Len(s) - Len(suffix) + 1, Len(s)) = suffix

\* x in list
InList(x, list) == \E i \in 1..Len(list) : list[i] = x

\* int(a / b): the fraction dropped
RoundDown(a, b) == a \div b

\* Python's round(a / b) for integers a >= 0, b > 0: round half to even.
\* (Equal to the float computation of the code for every b below 40.)
Round(a, b) ==
    LET q == a \div b
        r == a % b
    IN  IF 2 * r < b THEN q
        ELSE IF 2 * r > b THEN q + 1
        ELSE IF q % 2 = 0 THEN q ELSE q + 1

RECURSIVE SumSeq(_)
SumSeq(s) == IF s = <<>> THEN 0 ELSE s[1] + SumSeq(Tail(s))

\* os.path.join(item['p'], item['f'])
FullPath(item) == PathJoin(item.p, item.f)

(***************************************************************************)
(* Duplicate scoring (catalog_files.py)                                    *)
(***************************************************************************)
\* re.match anchors at the start of tail and the pattern is one negated
\* character class: None (portable) unless the FIRST character is outside it
IsPortableFilename(fname) ==
    LET tail == PathSplit(fname).tail
    IN  tail = <<>> \/ tail[1] \in PortableChar

\* lines 494-502: the sum over every directory prefix found in the favored list
PrefixBonus(p, favored) ==
    LET p_chunks   == SplitSlash(LStripSlash(p))
        num_chunks == Len(p_chunks)
        test_path(c) == <<Slash>> \o JoinSlash(SubSeq(p_chunks, 1, c + 1))
    IN  SumSeq([k \in 1..num_chunks |->
                  IF InList(test_path(k - 1), favored)
                  THEN Round(k * 100, num_chunks) ELSE 0])

ScoreStartingAt(d, favored, start) ==
    LET sp == PathSplit(d.fp)
        p  == sp.head
        f  == sp.tail
        letters == Cardinality({i \in 1..Len(f) : f[i] \in Alpha})
    IN  start
        + (15 - Count(d.fp, Slash))
        + (IF d.cat THEN 5 ELSE 0)
        + Round(letters * 10, Len(f))
        + (IF IsPortableFilename(d.fp) THEN 4 ELSE 0)
        + (IF InList(d.fp, favored) THEN 1000 ELSE PrefixBonus(p, favored))

ScoreAccumulating(d, favored) ==
    ScoreStartingAt(d, favored, IF "s" \in DOMAIN d THEN d.s ELSE 0)

\* lines 473-504: the score of one candidate (score = 0, then the five terms)
Score(d, favored) == ScoreStartingAt(d, favored, 0)

\* lines 506-511: the loop that picks highest_index, from (highest_score,
\* highest_index) = (0, 0), over candidates i2..Len(dupes)
RECURSIVE HighestFrom(_, _, _, _)
HighestFrom(scores, i2, highest_score, highest_index) ==
    IF i2 > Len(scores) THEN highest_index
    ELSE IF scores[i2] > highest_score
         THEN HighestFrom(scores, i2 + 1, scores[i2], i2)
         ELSE HighestFrom(scores, i2 + 1, highest_score, highest_index)

\* 1-based index of the kept candidate (highest_index + 1)
HighestIndex(scores) == HighestFrom(scores, 1, 0, 1)

\* lines 473-517 for one group
AnalyzeGroup(dupes, favored) ==
    LET scores == [i2 \in 1..Len(dupes) |-> Score(dupes[i2], favored)]
        keep   == HighestIndex(scores)
    IN  [i2 \in 1..Len(dupes) |->
            [fp |-> dupes[i2].fp, cat |-> dupes[i2].cat,
             s |-> scores[i2], r |-> (i2 # keep)]]

\* AnalyzeDupes(): every group rescored and reflagged
AnalyzeDupes(dups, favored) ==
    [i \in 1..Len(dups) |-> AnalyzeGroup(dups[i], favored)]

\* the candidates as the grouping step builds them: 'fp' and 'cat' only
Strip(dups) ==
    [i \in 1..Len(dups) |->
        [i2 \in 1..Len(dups[i]) |-> [fp |-> dups[i][i2].fp, cat |-> dups[i][i2].cat]]]

fileVars == <<disk, catalogFile, wipFile, sideDocs>>

catVars == <<catalog, catalog_index, catalog_list>>

scanVars == <<new_data, renamed, duplicates_found, scanPos, hashCalls>>

answerVars == <<deleteChoice, commitChoice, atStart>>

(***************************************************************************)
(* Values shared by the specifications                                     *)
(***************************************************************************)
NoDoc == [exists |-> FALSE, doc |-> <<>>]

NoSideDocs == [exists |-> FALSE, renamed |-> <<>>, new |-> <<>>]

EmptyMap == [x \in {} |-> x]

\* the globals of a script before it has read anything
FreshCatalog ==
    /\ catalog = <<>>
    /\ catalog_index = EmptyMap
    /\ catalog_list = <<>>

FreshScan ==
    /\ new_data = <<>>
    /\ renamed = <<>>
    /\ duplicates_found = <<>>
    /\ to_be_removed = <<>>

FreshReview ==
    /\ duplicates = <<>>
    /\ dr_favored_paths = <<>>

FreshRest ==
    /\ current_position = 0
    /\ atStart = [disk |-> disk, catalogFile |-> catalogFile, wipFile |-> wipFile,
                  run |-> 1]
    /\ scanPos = 1
    /\ hashCalls = <<>>
    /\ deleteChoice = "?"
    /\ commitChoice = "?"

(***************************************************************************)
(* SpecScore: AnalyzeDupes as a function of (duplicates, dr_favored_paths) *)
(***************************************************************************)
MaxDepth == 20

\* "/d/d/.../d" with n components
RECURSIVE DeepDir(_)
DeepDir(n) == IF n = 0 THEN <<>> ELSE <<Slash, "d">> \o DeepDir(n - 1)

ScoreNames == { <<"a">>, <<"1">>, <<"#">>, <<"a", "#">> }

ScoreDepths == {1, 2, MaxDepth - 1, MaxDepth}

FooTxt == <<"f", "o", "o", ".", "t", "x", "t">>

PathAFoo == <<Slash, "a", Slash>> \o FooTxt

PathBFoo == <<Slash, "b", Slash>> \o FooTxt

\* the example scenario of the specification: /a/foo.txt and /b/foo.txt
ExampleGroup == << [fp |-> PathAFoo, cat |-> FALSE], [fp |-> PathBFoo, cat |-> FALSE] >>

\* the favored list [/d, /d/d, ..., DeepDir(k)]
NestedPrefixes(k) == [j \in 1..k |-> DeepDir(j)]

InitScore ==
    /\ prog = "catalog"
    /\ pc = "analyze"
    /\ disk = EmptyMap
    /\ catalogFile = NoDoc
    /\ wipFile = NoDoc
    /\ sideDocs = NoSideDocs
    /\ FreshCatalog
    /\ FreshScan
    /\ FreshRest
    /\ remove_catalog_dupes = TRUE
    /\ \E n \in ScoreDepths, m \in ScoreDepths, fx \in ScoreNames, fy \in ScoreNames,
          catx \in BOOLEAN, k \in {0, 1, MaxDepth - 1, MaxDepth},
          favx \in BOOLEAN, favy \in BOOLEAN :
          LET X == [fp |-> PathJoin(DeepDir(n), fx), cat |-> catx]
              Y == [fp |-> PathJoin(DeepDir(m), fy), cat |-> FALSE]
          IN  /\ X.fp # Y.fp
              /\ duplicates = << <<X, Y>>, ExampleGroup >>
              /\ dr_favored_paths =
                    NestedPrefixes(k) \o (IF favx THEN <<X.fp>> ELSE <<>>)
                                      \o (IF favy THEN <<Y.fp>> ELSE <<>>)

\* AnalyzeDupes() on the current globals (lines 468-517)
Rescore ==
    /\ pc \in {"analyze", "review"}
    /\ duplicates' = AnalyzeDupes(duplicates, dr_favored_paths)
    /\ pc' = "review"
    /\ UNCHANGED <<prog, remove_catalog_dupes, fileVars, catVars, scanVars, answerVars,
                   dr_favored_paths, to_be_removed, current_position>>

NextScore == Rescore

SpecScore == InitScore /\ [][NextScore]_vars

(***************************************************************************)
(* The review session of catalog_files.py (lines 632-691)                  *)
(***************************************************************************)
MaxFavored == 2

\* list.remove(x): the first occurrence is removed
RemoveFirst(list, x) ==
    LET hits == {i \in 1..Len(list) : list[i] = x}
        i    == CHOOSE k \in hits : \A j \in hits : k <= j
    IN  SubSeq(list, 1, i - 1) \o SubSeq(list, i + 1, Len(list))

\* CountDupeIndexes()
RECURSIVE CountDupeIndexes(_)
CountDupeIndexes(dups) ==
    IF dups = <<>> THEN 0 ELSE Len(dups[1]) + CountDupeIndexes(Tail(dups))

\* what the user may type into the "Path to favor:" box: nothing, the path of
\* a candidate, or the directory of a candidate
FavorInputs ==
    {<<>>}
    \cup UNION { {duplicates[i][i2].fp : i2 \in 1..Len(duplicates[i])}
                 : i \in 1..Len(duplicates) }
    \cup UNION { {PathSplit(duplicates[i][i2].fp).head : i2 \in 1..Len(duplicates[i])}
                 : i \in 1..Len(duplicates) }

\* key 'f' (lines 643-650)
Favor(favored_path) ==
    /\ pc = "review"
    /\ favored_path # <<>> => Len(dr_favored_paths) < MaxFavored
    /\ dr_favored_paths' = IF favored_path # <<>>
                           THEN Append(dr_favored_paths, favored_path)
                           ELSE dr_favored_paths
    /\ duplicates' = AnalyzeDupes(duplicates, dr_favored_paths')
    /\ UNCHANGED <<prog, pc, remove_catalog_dupes, fileVars, catVars, scanVars,
                   answerVars, to_be_removed, current_position>>

UnfavorWithoutAnalyze(rem_path) ==
    /\ pc = "review"
    /\ InList(rem_path, dr_favored_paths)
    /\ dr_favored_paths' = RemoveFirst(dr_favored_paths, rem_path)
    /\ UNCHANGED <<prog, pc, remove_catalog_dupes, fileVars, catVars, scanVars,
                   answerVars, duplicates, to_be_removed, current_position>>

\* key 'r', an entry of the list selected (lines 651-656)
Unfavor(rem_path) ==
    /\ pc = "review"
    /\ InList(rem_path, dr_favored_paths)
    /\ dr_favored_paths' = RemoveFirst(dr_favored_paths, rem_path)
    /\ duplicates' = AnalyzeDupes(duplicates, dr_favored_paths')
    /\ UNCHANGED <<prog, pc, remove_catalog_dupes, fileVars, catVars, scanVars,
                   answerVars, to_be_removed, current_position>>

\* key 'r', "(none)" selected: nothing is removed, AnalyzeDupes runs again
UnfavorNone ==
    /\ pc = "review"
    /\ duplicates' = AnalyzeDupes(duplicates, dr_favored_paths)
    /\ UNCHANGED <<prog, pc, remove_catalog_dupes, fileVars, catVars, scanVars,
                   answerVars, dr_favored_paths, to_be_removed, current_position>>

\* key 'r', the selection left with ESC: MakeSelection returns '', and
\* dr_favored_paths.remove('') raises ValueError, which nothing catches
UnfavorEsc ==
    /\ pc = "review"
    /\ pc' = "crashed"
    /\ UNCHANGED <<prog, remove_catalog_dupes, fileVars, catVars, scanVars, answerVars,
                   duplicates, dr_favored_paths, to_be_removed, current_position>>

\* NUM_FILES_PER_PAGE = SCREEN_Y - (HEADER_SIZE + 1), for a terminal so short
\* that the groups of the model fill more than a page
NumFilesPerPage == 2

\* the cursor keys (lines 665-684)
MoveCursor(key, pos, dupe_count) ==
    CASE key = "up"   -> IF pos > 0 THEN pos - 1 ELSE pos
      [] key = "down" -> IF pos < dupe_count - 1 THEN pos + 1 ELSE pos
      [] key = "pgup" -> IF pos > NumFilesPerPage THEN pos - NumFilesPerPage ELSE 0
      [] key = "pgdn" -> IF pos < dupe_count - NumFilesPerPage
                         THEN pos + NumFilesPerPage ELSE dupe_count - 1
      [] key = "home" -> 0
      [] key = "end"  -> dupe_count - 1

CursorKeys == {"up", "down", "pgup", "pgdn", "home", "end"}

CursorKey(key) ==
    /\ pc = "review"
    /\ current_position' = MoveCursor(key, current_position, CountDupeIndexes(duplicates))
    /\ UNCHANGED <<prog, pc, remove_catalog_dupes, fileVars, catVars, scanVars,
                   answerVars, duplicates, dr_favored_paths, to_be_removed>>

(***************************************************************************)
(* SpecReview: favor and unfavor commands from the first AnalyzeDupes on   *)
(***************************************************************************)
ReviewDepths == {1, 2}

InitReview ==
    /\ prog = "catalog"
    /\ pc = "analyze"
    /\ disk = EmptyMap
    /\ catalogFile = NoDoc
    /\ wipFile = NoDoc
    /\ sideDocs = NoSideDocs
    /\ FreshCatalog
    /\ FreshScan
    /\ FreshRest
    /\ remove_catalog_dupes = TRUE
    /\ dr_favored_paths = <<>>
    /\ \E n \in ReviewDepths, m \in ReviewDepths, fx \in {<<"a">>, <<"#">>},
          fy \in {<<"a">>, <<"1">>}, catx \in BOOLEAN :
          LET X == [fp |-> PathJoin(DeepDir(n), fx), cat |-> catx]
              Y == [fp |-> PathJoin(DeepDir(m), fy), cat |-> FALSE]
          IN  /\ X.fp # Y.fp
              /\ duplicates = << <<X, Y>> >>

\* the first AnalyzeDupes() (line 618)
StartReview ==
    /\ pc = "analyze"
    /\ Rescore

NextReview ==
    \/ StartReview
    \/ \E favored_path \in FavorInputs : Favor(favored_path)
    \/ \E i \in 1..Len(dr_favored_paths) : Unfavor(dr_favored_paths[i])
    \/ UnfavorNone
    \/ UnfavorEsc

SpecReview == InitReview /\ [][NextReview]_vars

(***************************************************************************)
(* Dicts and documents                                                     *)
(***************************************************************************)
\* a dict is a sequence of [k, v] with distinct keys, in insertion order
DictHas(d, key) == \E i \in 1..Len(d) : d[i].k = key

DictGet(d, key) == d[CHOOSE i \in 1..Len(d) : d[i].k = key].v

\* d[key] = val: an existing key keeps its place
DictSet(d, key, val) ==
    IF DictHas(d, key)
    THEN [i \in 1..Len(d) |-> IF d[i].k = key THEN [k |-> key, v |-> val] ELSE d[i]]
    ELSE Append(d, [k |-> key, v |-> val])

DictKeys(d) == {d[i].k : i \in 1..Len(d)}

\* json.dump(catalog): the members of one JSON object, in dict order
DumpDict(d) == [i \in 1..Len(d) |-> <<d[i].k, d[i].v>>]

\* json.load of a JSON object: members are inserted in order, a repeated name
\* overwrites the earlier value
RECURSIVE LoadInto(_, _)
LoadInto(d, members) ==
    IF members = <<>> THEN d
    ELSE LoadInto(DictSet(d, members[1][1], members[1][2]), Tail(members))

\* lines 45-49: the catalog dict, {} when catalog.db does not exist
LoadCatalog(file) == IF file.exists THEN LoadInto(<<>>, file.doc) ELSE <<>>

\* lines 66-69: catalog_index[os.path.join(p, f)] = hash, later entries overwrite
RECURSIVE BuildIndex(_, _)
BuildIndex(idx, cat) ==
    IF cat = <<>> THEN idx
    ELSE LET fp == FullPath(cat[1].v)
         IN  BuildIndex([x \in DOMAIN idx \cup {fp} |-> IF x = fp THEN cat[1].k ELSE idx[x]],
                        Tail(cat))

\* update_catalog_locations.py lines 56-61: catalog_list
BuildList(cat) ==
    [i \in 1..Len(cat) |-> [h |-> cat[i].k, f |-> cat[i].v.f, p |-> cat[i].v.p, s |-> cat[i].v.s]]

\* lines 72-76: new_data, [] when wip.db does not exist
LoadWip(file) == IF file.exists THEN file.doc ELSE <<>>

(***************************************************************************)
(* The file system                                                         *)
(***************************************************************************)
\* a content id stands for the bytes of a file; hash_file and os.path.getsize
\* are functions of the bytes (contents 1 and 3 have the same length)
HashOf(c) == <<"h1", "h2", "h3">>[c]

SizeOf(c) == <<5, 7, 5>>[c]

DirT == <<Slash, "t">>

DirTC == <<Slash, "t", Slash, "c">>

DirLib == <<Slash, "l", "i", "b">>

XDb == <<"x", ".", "d", "b">>

\* starting_path (the current directory)
StartingPath == DirT

\* os.walk(starting_path): every (root, file), top directory first
WalkOrder ==
    << [p |-> DirT, f |-> FooTxt], [p |-> DirT, f |-> XDb], [p |-> DirTC, f |-> FooTxt] >>

\* a file outside the tree that the catalog may know
OutsideFile == [p |-> DirLib, f |-> FooTxt]

PoolFiles == {WalkOrder[i] : i \in 1..Len(WalkOrder)} \cup {OutsideFile}

\* the files os.walk yields on the current disk
Walk == SelectSeq(WalkOrder, LAMBDA w : FullPath(w) \in DOMAIN disk)

ExistsAlways(fp) == TRUE

\* os.path.exists
Exists(fp) == fp \in DOMAIN disk

\* ignore_extensions = ('.db', '.bak')
IgnoreExtensions == { <<".", "d", "b">>, <<".", "b", "a", "k">> }

IsIgnored(file) == \E ext \in IgnoreExtensions : EndsWith(file, ext)

\* the scan record of a file (line 562)
Item(w) ==
    [h |-> HashOf(disk[FullPath(w)]), f |-> w.f, p |-> w.p, s |-> SizeOf(disk[FullPath(w)])]

MatchesCatalogInverted(w) ==
    /\ FullPath(w) \in DOMAIN catalog_index
    /\ SizeOf(disk[FullPath(w)]) # DictGet(catalog, catalog_index[FullPath(w)]).s

\* lines 544-548: the path is indexed and the live size is the recorded size
MatchesCatalog(w) ==
    /\ FullPath(w) \in DOMAIN catalog_index
    /\ SizeOf(disk[FullPath(w)]) = DictGet(catalog, catalog_index[FullPath(w)]).s

InNewDataNever(w) == FALSE

\* line 553: already processed in wip.db
InNewData(w) == \E i \in 1..Len(new_data) : FullPath(new_data[i]) = FullPath(w)

\* lines 563-567: same exact hash, size and location is already in the catalog
SameAsCatalog(item) ==
    /\ DictHas(catalog, item.h)
    /\ LET c == DictGet(catalog, item.h)
       IN  c.f = item.f /\ c.p = item.p /\ c.s = item.s

\* dict == dict, as update_catalog_locations.py line 140 compares
DictEq(a, b) == DOMAIN a = DOMAIN b /\ \A x \in DOMAIN a : a[x] = b[x]

(***************************************************************************)
(* Start of a script: the documents are read (all three scripts)           *)
(***************************************************************************)
\* a document whose writer was killed before json.dump had written all of it
Torn(file) == "torn" \in DOMAIN file

TornDoc == [exists |-> TRUE, doc |-> <<>>, torn |-> TRUE]

\* catalog_files.py line 76: json.load raises on a torn wip.db and nothing
\* catches it
LoadCrash ==
    /\ pc = "start"
    /\ prog = "catalog"
    /\ Torn(wipFile)
    /\ pc' = "crashed"
    /\ UNCHANGED <<prog, remove_catalog_dupes, fileVars, catVars, scanVars, answerVars,
                   duplicates, dr_favored_paths, to_be_removed, current_position>>

Load ==
    /\ pc = "start"
    /\ ~Torn(wipFile)
    /\ catalog' = LoadCatalog(catalogFile)
    /\ catalog_index' = BuildIndex(EmptyMap, catalog')
    /\ catalog_list' = IF prog = "update" THEN BuildList(catalog') ELSE <<>>
    /\ new_data' = IF prog = "catalog" THEN LoadWip(wipFile) ELSE <<>>
    /\ pc' = "scan"
    /\ UNCHANGED <<prog, remove_catalog_dupes, fileVars, answerVars, renamed,
                   duplicates_found, scanPos, hashCalls, duplicates, dr_favored_paths,
                   to_be_removed, current_position>>

(***************************************************************************)
(* catalog_files.py: the scan loop, one file per step (lines 537-572)      *)
(***************************************************************************)
ScanStep ==
    /\ prog = "catalog"
    /\ pc = "scan"
    /\ scanPos <= Len(Walk)
    /\ scanPos' = scanPos + 1
    /\ LET w == Walk[scanPos]
       IN  IF IsIgnored(w.f) \/ MatchesCatalog(w) \/ InNewData(w)
           THEN UNCHANGED <<new_data, hashCalls, wipFile>>
           ELSE /\ hashCalls' = Append(hashCalls, FullPath(w))
                /\ IF SameAsCatalog(Item(w))
                   THEN UNCHANGED <<new_data, wipFile>>
                   ELSE /\ new_data' = Append(new_data, Item(w))
                        \* line 569: more than 10 seconds since the last save, or not
                        /\ \E elapsed \in BOOLEAN :
                              wipFile' = IF elapsed
                                         THEN [exists |-> TRUE, doc |-> new_data']
                                         ELSE wipFile
    /\ UNCHANGED <<prog, pc, remove_catalog_dupes, disk, catalogFile, sideDocs, catVars,
                   answerVars, renamed, duplicates_found, duplicates, dr_favored_paths,
                   to_be_removed, current_position>>

(***************************************************************************)
(* update_catalog_locations.py: the scan loop (lines 112-142)              *)
(***************************************************************************)
FindHashBySizeOnly(size) ==
    LET subset == SelectSeq(catalog_list, LAMBDA i : i.s = size)
    IN  IF Len(subset) = 1 THEN subset[1].h ELSE ""

FindHashNarrowingToExisting(size) ==
    LET subset == SelectSeq(catalog_list, LAMBDA i : i.s = size)
        ss2    == SelectSeq(subset, LAMBDA i : Exists(FullPath(i)))
    IN  IF Len(subset) = 1 THEN subset[1].h
        ELSE IF Len(ss2) = 1 THEN ss2[1].h
        ELSE ""

\* lines 76-85: "" when the hash cannot be deduced
FindHashByFileAndSize(size) ==
    LET subset == SelectSeq(catalog_list, LAMBDA i : i.s = size)
        ss2    == SelectSeq(subset, LAMBDA i : ~Exists(FullPath(i)))
    IN  IF Len(subset) = 1 THEN subset[1].h
        ELSE IF Len(ss2) = 1 THEN ss2[1].h
        ELSE ""

UpdateScanStep ==
    /\ prog = "update"
    /\ pc = "scan"
    /\ scanPos <= Len(Walk)
    /\ scanPos' = scanPos + 1
    /\ LET w == Walk[scanPos]
           size == SizeOf(disk[FullPath(w)])
           deduced == FindHashByFileAndSize(size)
           item == [h |-> IF deduced = "" THEN HashOf(disk[FullPath(w)]) ELSE deduced,
                    f |-> w.f, p |-> w.p, s |-> size]
       IN  IF IsIgnored(w.f) \/ MatchesCatalog(w)
           THEN UNCHANGED <<new_data, hashCalls>>
           ELSE /\ hashCalls' = IF deduced = "" THEN Append(hashCalls, FullPath(w))
                                ELSE hashCalls
                /\ new_data' = IF DictHas(catalog, item.h) /\ DictEq(DictGet(catalog, item.h), item)
                               THEN new_data
                               ELSE Append(new_data, item)
    /\ UNCHANGED <<prog, pc, remove_catalog_dupes, fileVars, catVars, answerVars, renamed,
                   duplicates_found, duplicates, dr_favored_paths, to_be_removed,
                   current_position>>

(***************************************************************************)
(* find_noncatalog_files.py (lines 88-140)                                 *)
(***************************************************************************)
FindScanStep ==
    /\ prog = "find"
    /\ pc = "scan"
    /\ scanPos <= Len(Walk)
    /\ scanPos' = scanPos + 1
    /\ LET w == Walk[scanPos]
       IN  IF IsIgnored(w.f) \/ MatchesCatalog(w)
           THEN UNCHANGED <<new_data, renamed, hashCalls>>
           ELSE /\ hashCalls' = Append(hashCalls, FullPath(w))
                /\ IF DictHas(catalog, Item(w).h)
                   THEN renamed' = Append(renamed, Item(w)) /\ new_data' = new_data
                   ELSE new_data' = Append(new_data, Item(w)) /\ renamed' = renamed
    /\ UNCHANGED <<prog, pc, remove_catalog_dupes, fileVars, catVars, answerVars,
                   duplicates_found, duplicates, dr_favored_paths, to_be_removed,
                   current_position>>

\* lines 134-140: the lists are saved on 'y'; an empty answer raises IndexError
FindSave(choice) ==
    /\ prog = "find"
    /\ pc = "scan"
    /\ scanPos > Len(Walk)
    /\ pc' = IF choice = "" THEN "crashed" ELSE "done"
    /\ sideDocs' = IF choice = "y"
                   THEN [exists |-> TRUE, renamed |-> renamed, new |-> new_data]
                   ELSE sideDocs
    /\ UNCHANGED <<prog, remove_catalog_dupes, disk, catalogFile, wipFile, catVars,
                   scanVars, answerVars, duplicates, dr_favored_paths, to_be_removed,
                   current_position>>

(***************************************************************************)
(* catalog_files.py after the scan: checkpoint, grouping, review           *)
(***************************************************************************)
FinishScanIfElapsed ==
    /\ prog = "catalog"
    /\ pc = "scan"
    /\ scanPos > Len(Walk)
    /\ \E elapsed \in BOOLEAN :
          wipFile' = IF elapsed THEN [exists |-> TRUE, doc |-> new_data] ELSE wipFile
    /\ pc' = "identify"
    /\ UNCHANGED <<prog, remove_catalog_dupes, disk, catalogFile, sideDocs, catVars,
                   scanVars, answerVars, duplicates, dr_favored_paths, to_be_removed,
                   current_position>>

\* lines 574-576: the work in progress is saved unconditionally
FinishScan ==
    /\ prog = "catalog"
    /\ pc = "scan"
    /\ scanPos > Len(Walk)
    /\ wipFile' = [exists |-> TRUE, doc |-> new_data]
    /\ pc' = "identify"
    /\ UNCHANGED <<prog, remove_catalog_dupes, disk, catalogFile, sideDocs, catVars,
                   scanVars, answerVars, duplicates, dr_favored_paths, to_be_removed,
                   current_position>>

\* line 606: the records with this hash that are not yet accounted for
Matching(hash, dupes) ==
    LET sel == SelectSeq(new_data, LAMBDA i : i.h = hash /\ ~InList(FullPath(i), dupes))
    IN  [i \in 1..Len(sel) |-> [fp |-> FullPath(sel[i]), cat |-> FALSE]]

\* lines 586-611 from record n on; dupes, dups and tbr are the lists built so far
RECURSIVE IdentifyFrom(_, _, _, _)
IdentifyFrom(n, dupes, dups, tbr) ==
    IF n > Len(new_data) THEN [duplicates |-> dups, to_be_removed |-> tbr]
    ELSE
      LET file     == new_data[n]
          hash     == file.h
          fullpath == FullPath(file)
          inCat    == DictHas(catalog, hash)
          cat_fp   == FullPath(DictGet(catalog, hash))
          catalog_item == [fp |-> cat_fp, cat |-> TRUE]
          matching == Matching(hash, dupes)
          duplicates_item ==
              (IF inCat /\ remove_catalog_dupes THEN <<catalog_item>> ELSE <<>>) \o matching
      IN  IF InList(fullpath, dupes) THEN IdentifyFrom(n + 1, dupes, dups, tbr)
          ELSE IF inCat /\ ~Exists(cat_fp)
               THEN IdentifyFrom(n + 1, dupes, dups, Append(tbr, fullpath))
          ELSE IF Len(matching) < 2 /\ ~inCat THEN IdentifyFrom(n + 1, dupes, dups, tbr)
          ELSE IdentifyFrom(n + 1,
                            dupes \o [i \in 1..Len(matching) |-> matching[i].fp],
                            Append(dups, duplicates_item),
                            tbr)

\* lines 583-629: the groups are built; when there are any they are scored
\* and the review starts
IdentifyDuplicates ==
    /\ prog = "catalog"
    /\ pc = "identify"
    /\ LET found == IdentifyFrom(1, <<>>, duplicates, to_be_removed)
       IN  /\ to_be_removed' = found.to_be_removed
           /\ duplicates' = IF found.duplicates # <<>>
                            THEN AnalyzeDupes(found.duplicates, dr_favored_paths)
                            ELSE found.duplicates
           /\ pc' = IF found.duplicates # <<>> THEN "review" ELSE "delete_step"
    /\ current_position' = 0
    /\ UNCHANGED <<prog, remove_catalog_dupes, fileVars, catVars, scanVars, answerVars,
                   dr_favored_paths>>

\* key 'q' or ESC (lines 635-640): sys.exit() on "Yes"
Quit(r) ==
    /\ pc = "review"
    /\ pc' = IF r = "Yes" THEN "quit" ELSE pc
    /\ UNCHANGED <<prog, remove_catalog_dupes, fileVars, catVars, scanVars, answerVars,
                   duplicates, dr_favored_paths, to_be_removed, current_position>>

\* RemoveDupes() (lines 521-526): the paths flagged for removal, group by group
RECURSIVE RemoveDupes(_)
RemoveDupes(dups) ==
    IF dups = <<>> THEN <<>>
    ELSE LET flagged == SelectSeq(dups[1], LAMBDA d : d.r)
         IN  [i \in 1..Len(flagged) |-> flagged[i].fp] \o RemoveDupes(Tail(dups))

\* key 'd' (lines 657-664) and, on "Yes", RemoveDupes() (line 691)
Done(r) ==
    /\ pc = "review"
    /\ pc' = IF r = "Yes" THEN "delete_step" ELSE pc
    /\ to_be_removed' = IF r = "Yes" THEN to_be_removed \o RemoveDupes(duplicates)
                        ELSE to_be_removed
    /\ UNCHANGED <<prog, remove_catalog_dupes, fileVars, catVars, scanVars, answerVars,
                   duplicates, dr_favored_paths, current_position>>

(***************************************************************************)
(* catalog_files.py: the deletion step (lines 693-709)                     *)
(***************************************************************************)
IsYesAlways(choice) == TRUE

\* choice[0] == 'y'
IsYes(choice) == choice = "y"

RemoveFilesUntilMissing(d, paths) ==
    LET missing == {i \in 1..Len(paths) : paths[i] \notin DOMAIN d}
        upto    == IF missing = {} THEN Len(paths)
                   ELSE (CHOOSE i \in missing : \A j \in missing : i <= j) - 1
    IN  [fp \in {q \in DOMAIN d : ~InList(q, SubSeq(paths, 1, upto))} |-> d[fp]]

\* lines 701-703: every listed path that exists is removed
RemoveFiles(d, paths) == [fp \in {q \in DOMAIN d : ~InList(q, paths)} |-> d[fp]]

\* nothing is listed: "No duplicates were found."
DeleteNothing ==
    /\ prog = "catalog"
    /\ pc = "delete_step"
    /\ to_be_removed = <<>>
    /\ pc' = "commit_step"
    /\ UNCHANGED <<prog, remove_catalog_dupes, fileVars, catVars, scanVars, answerVars,
                   duplicates, dr_favored_paths, to_be_removed, current_position>>

\* the user is asked; an empty answer raises IndexError at choice[0]
DeleteConfirm(choice) ==
    /\ prog = "catalog"
    /\ pc = "delete_step"
    /\ to_be_removed # <<>>
    /\ deleteChoice' = choice
    /\ pc' = IF choice = "" THEN "crashed" ELSE "commit_step"
    /\ disk' = IF choice # "" /\ IsYes(choice) THEN RemoveFiles(disk, to_be_removed) ELSE disk
    /\ UNCHANGED <<prog, remove_catalog_dupes, catalogFile, wipFile, sideDocs, catVars,
                   scanVars, commitChoice, atStart, duplicates, dr_favored_paths,
                   to_be_removed, current_position>>

(***************************************************************************)
(* catalog_files.py: the commit step (lines 711-730)                       *)
(***************************************************************************)
NewCatEntriesAll == new_data

\* line 712
NewCatEntries == SelectSeq(new_data, LAMBDA i : ~InList(FullPath(i), to_be_removed))

CommitEntriesOverwriting(cat, entries) ==
    LoadInto(cat, [i \in 1..Len(entries) |->
                     <<entries[i].h, [f |-> entries[i].f, p |-> entries[i].p, s |-> entries[i].s]>>])

\* lines 717-721: a hash that is already a key is reported, not written
RECURSIVE CommitEntries(_, _)
CommitEntries(cat, entries) ==
    IF entries = <<>> THEN cat
    ELSE LET i == entries[1]
         IN  CommitEntries(IF DictHas(cat, i.h) THEN cat
                           ELSE DictSet(cat, i.h, [f |-> i.f, p |-> i.p, s |-> i.s]),
                           Tail(entries))

\* nothing to add (lines 728-730): the WIP document is removed
CommitNothing ==
    /\ prog = "catalog"
    /\ pc = "commit_step"
    /\ NewCatEntries = <<>>
    /\ wipFile' = NoDoc
    /\ pc' = "done"
    /\ UNCHANGED <<prog, remove_catalog_dupes, disk, catalogFile, sideDocs, catVars,
                   scanVars, answerVars, duplicates, dr_favored_paths, to_be_removed,
                   current_position>>

WipKeptNever(choice) == FALSE

WipKeptInverted(choice) == IsYes(choice)

\* lines 716-727: the WIP document stays unless the commit was confirmed
WipKept(choice) == ~IsYes(choice)

\* the user is asked (lines 714-727); an empty answer raises IndexError
CommitConfirm(choice) ==
    /\ prog = "catalog"
    /\ pc = "commit_step"
    /\ NewCatEntries # <<>>
    /\ commitChoice' = choice
    /\ pc' = IF choice = "" THEN "crashed" ELSE "done"
    /\ IF choice # "" /\ IsYes(choice)
       THEN /\ catalog' = CommitEntries(catalog, NewCatEntries)
            /\ catalogFile' = [exists |-> TRUE, doc |-> DumpDict(catalog')]
       ELSE UNCHANGED <<catalog, catalogFile>>
    /\ wipFile' = IF choice = "" \/ WipKept(choice) THEN wipFile ELSE NoDoc
    /\ UNCHANGED <<prog, remove_catalog_dupes, disk, sideDocs, catalog_index, catalog_list,
                   scanVars, deleteChoice, atStart, duplicates, dr_favored_paths,
                   to_be_removed, current_position>>

(***************************************************************************)
(* update_catalog_locations.py after the scan (lines 144-177)              *)
(***************************************************************************)
\* lines 147-160 from record n on
RECURSIVE DuplicatesFrom(_, _)
DuplicatesFrom(n, found) ==
    IF n > Len(new_data) THEN found
    ELSE LET hash == new_data[n].h
             matching == SelectSeq(new_data,
                            LAMBDA i : i.h = hash /\ ~InList(FullPath(i), found))
         IN  IF ~DictHas(catalog, hash) \/ Len(matching) < 2
             THEN DuplicatesFrom(n + 1, found)
             ELSE DuplicatesFrom(n + 1,
                                 found \o [i \in 1..Len(matching) |-> FullPath(matching[i])])

DetectDuplicates ==
    /\ prog = "update"
    /\ pc = "scan"
    /\ scanPos > Len(Walk)
    /\ duplicates_found' = DuplicatesFrom(1, duplicates_found)
    /\ pc' = "update_step"
    /\ UNCHANGED <<prog, remove_catalog_dupes, fileVars, catVars, answerVars, new_data,
                   renamed, scanPos, hashCalls, duplicates, dr_favored_paths,
                   to_be_removed, current_position>>

UpdateEntriesInserting(cat, records) ==
    LoadInto(cat, [i \in 1..Len(records) |->
                     <<records[i].h, [f |-> records[i].f, p |-> records[i].p, s |-> records[i].s]>>])

\* lines 169-174: "we are only updating, not adding"
RECURSIVE UpdateEntries(_, _)
UpdateEntries(cat, records) ==
    IF records = <<>> THEN cat
    ELSE LET i == records[1]
         IN  UpdateEntries(IF DictHas(cat, i.h)
                           THEN DictSet(cat, i.h, [f |-> i.f, p |-> i.p, s |-> i.s])
                           ELSE cat,
                           Tail(records))

NotDuplicatesAll == new_data

\* line 170: the records whose path was not reported as a duplicate
NotDuplicates == SelectSeq(new_data, LAMBDA i : ~InList(FullPath(i), duplicates_found))

\* lines 167-177: the catalog is updated and written
UpdateCatalog ==
    /\ prog = "update"
    /\ pc = "update_step"
    /\ catalog' = UpdateEntries(catalog, NotDuplicates)
    /\ catalogFile' = [exists |-> TRUE, doc |-> DumpDict(catalog')]
    /\ pc' = "done"
    /\ UNCHANGED <<prog, remove_catalog_dupes, disk, wipFile, sideDocs, catalog_index,
                   catalog_list, scanVars, answerVars, duplicates, dr_favored_paths,
                   to_be_removed, current_position>>

(***************************************************************************)
(* Initial states: what a script may find on disk                          *)
(***************************************************************************)
\* the disk with content a at /t/foo.txt, x at /t/x.db, b at /t/c/foo.txt and
\* l at /lib/foo.txt, where 0 stands for "no such file"
MkDisk(a, x, b, l) ==
    LET all == (FullPath(WalkOrder[1]) :> a) @@ (FullPath(WalkOrder[2]) :> x)
               @@ (FullPath(WalkOrder[3]) :> b) @@ (FullPath(OutsideFile) :> l)
    IN  [fp \in {q \in DOMAIN all : all[q] # 0} |-> all[fp]]

\* a catalog entry for content c recorded at file w
Entry(c, w) == [k |-> HashOf(c), v |-> [f |-> w.f, p |-> w.p, s |-> SizeOf(c)]]

\* a scan record for content c found at file w
Record(c, w) == [h |-> HashOf(c), f |-> w.f, p |-> w.p, s |-> SizeOf(c)]

DataFiles == {WalkOrder[1], WalkOrder[3], OutsideFile}

\* the catalogs of at most n entries over the given contents (distinct hashes)
Catalogs(n, contents) ==
    UNION { { cat \in [1..len -> {Entry(c, w) : c \in contents, w \in DataFiles}] :
                \A i \in 1..len, j \in 1..len : cat[i].k = cat[j].k => i = j }
            : len \in 0..n }

\* the WIP documents of at most n records over the given contents; a scan
\* never records a path twice (line 553)
Wips(n, contents) ==
    UNION { { wip \in [1..len -> {Record(c, w) : c \in contents,
                                                  w \in {WalkOrder[1], WalkOrder[3]}}] :
                \A i \in 1..len, j \in 1..len :
                    FullPath(wip[i]) = FullPath(wip[j]) => i = j }
            : len \in 0..n }

InitWith(progs, disks, catalogs, wips, modes) ==
    /\ prog \in progs
    /\ pc = "start"
    /\ disk \in disks
    /\ \E cat \in catalogs :
          catalogFile = IF cat = <<>> THEN NoDoc ELSE [exists |-> TRUE, doc |-> DumpDict(cat)]
    /\ \E wip \in wips :
          wipFile = IF prog # "catalog" \/ wip = <<>> THEN NoDoc
                    ELSE [exists |-> TRUE, doc |-> wip]
    /\ sideDocs = NoSideDocs
    /\ remove_catalog_dupes \in (IF prog = "catalog" THEN modes ELSE {TRUE})
    /\ FreshCatalog
    /\ FreshScan
    /\ FreshReview
    /\ FreshRest

(***************************************************************************)
(* SpecScan: the scan loops of the three scripts                           *)
(***************************************************************************)
MaxCatalogScan == 2

MaxWipScan == 1

InitScan ==
    InitWith({"catalog", "update", "find"},
             {MkDisk(a, x, b, l) : a \in 0..3, x \in {0, 1}, b \in 0..3, l \in {0, 1}},
             Catalogs(MaxCatalogScan, {1, 2, 3}),
             Wips(MaxWipScan, {1, 2}),
             {TRUE})

NextScan ==
    \/ Load
    \/ ScanStep
    \/ UpdateScanStep
    \/ FindScanStep
    \/ \E choice \in {"y", "n", ""} : FindSave(choice)

SpecScan == InitScan /\ [][NextScan]_vars

(***************************************************************************)
(* Spec: one run of catalog_files.py, from the documents to the commit     *)
(***************************************************************************)
MaxCatalog == 1

MaxWip == 1

Init ==
    InitWith({"catalog"},
             {MkDisk(a, 1, b, l) : a \in 0..2, b \in 0..2, l \in {0, 1}},
             Catalogs(MaxCatalog, {1, 2}),
             Wips(MaxWip, {1, 2}),
             BOOLEAN)

Next ==
    \/ Load
    \/ ScanStep
    \/ FinishScan
    \/ IdentifyDuplicates
    \/ \E favored_path \in FavorInputs : Favor(favored_path)
    \/ \E i \in 1..Len(dr_favored_paths) : Unfavor(dr_favored_paths[i])
    \/ UnfavorNone
    \/ UnfavorEsc
    \/ \E key \in CursorKeys : CursorKey(key)
    \/ \E r \in {"Yes", "No"} : Quit(r)
    \/ \E r \in {"Yes", "No"} : Done(r)
    \/ DeleteNothing
    \/ \E choice \in {"y", "n", ""} : DeleteConfirm(choice)
    \/ CommitNothing
    \/ \E choice \in {"y", "n", ""} : CommitConfirm(choice)

Spec == Init /\ [][Next]_vars

(***************************************************************************)
(* SpecGroup: catalog_files.py up to the first screen of the review, with  *)
(* larger catalogs and no WIP document                                     *)
(***************************************************************************)
MaxCatalogGroup == 2

InitGroup ==
    InitWith({"catalog"},
             {MkDisk(a, 1, b, l) : a \in 0..2, b \in 0..2, l \in 0..2},
             Catalogs(MaxCatalogGroup, {1, 2}),
             {<<>>},
             BOOLEAN)

NextGroup ==
    \/ Load
    \/ ScanStep
    \/ FinishScan
    \/ IdentifyDuplicates

SpecGroup == InitGroup /\ [][NextGroup]_vars

(***************************************************************************)
(* SpecRerun: catalog_files.py run to its end and then run again           *)
(***************************************************************************)
MaxRuns == 2

\* the script is started again after a run that went through the review, the
\* deletion and the commit; every global starts afresh, the files and the
\* documents are as the earlier run left them
Restart ==
    /\ prog = "catalog"
    /\ pc = "done"
    /\ duplicates # <<>>
    /\ deleteChoice = "y"
    /\ commitChoice = "y"
    /\ atStart.run < MaxRuns
    /\ pc' = "start"
    /\ remove_catalog_dupes' \in BOOLEAN
    /\ catalog' = <<>>
    /\ catalog_index' = EmptyMap
    /\ catalog_list' = <<>>
    /\ new_data' = <<>>
    /\ renamed' = <<>>
    /\ duplicates_found' = <<>>
    /\ to_be_removed' = <<>>
    /\ duplicates' = <<>>
    /\ dr_favored_paths' = <<>>
    /\ current_position' = 0
    /\ scanPos' = 1
    /\ hashCalls' = <<>>
    /\ deleteChoice' = "?"
    /\ commitChoice' = "?"
    /\ atStart' = [disk |-> disk, catalogFile |-> catalogFile, wipFile |-> wipFile,
                   run |-> atStart.run + 1]
    /\ UNCHANGED <<prog, fileVars>>

InitRerun ==
    InitWith({"catalog"},
             {MkDisk(a, 1, b, l) : a \in 0..2, b \in 0..2, l \in {0, 1}},
             Catalogs(MaxCatalog, {1, 2}),
             {<<>>},
             BOOLEAN)

NextRerun ==
    \/ Next
    \/ Restart

SpecRerun == InitRerun /\ [][NextRerun]_vars

(***************************************************************************)
(* SpecResume: the scan of catalog_files.py killed and started again       *)
(***************************************************************************)
\* the process is killed between two files of the scan, or before the final
\* save: wip.db is as the last save left it
Kill ==
    /\ prog = "catalog"
    /\ pc = "scan"
    /\ pc' = "killed"
    /\ UNCHANGED <<prog, remove_catalog_dupes, fileVars, catVars, scanVars, answerVars,
                   duplicates, dr_favored_paths, to_be_removed, current_position>>

\* the process is killed inside a save (lines 570-571 after an append, or
\* lines 575-576): open(..., 'w') has truncated wip.db and json.dump has not
\* finished
KillDuringSave ==
    /\ prog = "catalog"
    /\ pc = "scan"
    /\ \/ scanPos > Len(Walk)
       \/ /\ scanPos <= Len(Walk)
          /\ LET w == Walk[scanPos]
             IN  /\ ~(IsIgnored(w.f) \/ MatchesCatalog(w) \/ InNewData(w))
                 /\ ~SameAsCatalog(Item(w))
    /\ wipFile' = TornDoc
    /\ pc' = "killed"
    /\ UNCHANGED <<prog, remove_catalog_dupes, disk, catalogFile, sideDocs, catVars,
                   scanVars, answerVars, duplicates, dr_favored_paths, to_be_removed,
                   current_position>>

\* the script is started again over the same tree and catalog; atStart keeps
\* what the first start found
Resume ==
    /\ prog = "catalog"
    /\ pc = "killed"
    /\ atStart.run < MaxRuns
    /\ pc' = "start"
    /\ catalog' = <<>>
    /\ catalog_index' = EmptyMap
    /\ catalog_list' = <<>>
    /\ new_data' = <<>>
    /\ scanPos' = 1
    /\ hashCalls' = <<>>
    /\ atStart' = [atStart EXCEPT !.run = @ + 1]
    /\ UNCHANGED <<prog, remove_catalog_dupes, fileVars, renamed, duplicates_found,
                   deleteChoice, commitChoice, duplicates, dr_favored_paths,
                   to_be_removed, current_position>>

InitResume ==
    InitWith({"catalog"},
             {MkDisk(a, 1, b, l) : a \in 0..2, b \in 0..2, l \in {0, 1}},
             Catalogs(MaxCatalog, {1, 2}),
             Wips(MaxWip, {1, 2}),
             {TRUE})

NextResume ==
    \/ Load
    \/ LoadCrash
    \/ ScanStep
    \/ FinishScan
    \/ Kill
    \/ KillDuringSave
    \/ Resume

SpecResume == InitResume /\ [][NextResume]_vars

(***************************************************************************)
(* SpecCommit: the commit step applied to any records and exclusions       *)
(***************************************************************************)
MaxCommitRecords == 3

BarName == <<"b">>

\* the files the records of a commit may describe
CommitFiles ==
    {WalkOrder[1], WalkOrder[3], [p |-> DirT, f |-> BarName], [p |-> DirTC, f |-> BarName]}

\* the sub-list of paths picked by keep
PathsOf(records, keep) ==
    LET sel == SelectSeq([i \in 1..Len(records) |-> <<i, records[i]>>],
                         LAMBDA e : e[1] \in keep)
    IN  [i \in 1..Len(sel) |-> FullPath(sel[i][2])]

InitCommit ==
    /\ prog = "catalog"
    /\ pc = "commit_step"
    /\ remove_catalog_dupes = TRUE
    /\ sideDocs = NoSideDocs
    /\ FreshReview
    /\ renamed = <<>>
    /\ duplicates_found = <<>>
    /\ hashCalls = <<>>
    /\ current_position = 0
    /\ commitChoice = "?"
    /\ catalog_list = <<>>
    /\ \E cat \in Catalogs(MaxCatalog, {1, 2}) :
          /\ catalogFile = IF cat = <<>> THEN NoDoc ELSE [exists |-> TRUE, doc |-> DumpDict(cat)]
          /\ catalog = LoadCatalog(catalogFile)
          /\ catalog_index = BuildIndex(EmptyMap, catalog)
    /\ \E len \in 0..MaxCommitRecords :
       \E cw \in [1..len -> {1, 2} \X CommitFiles] :
          /\ \A i \in 1..len, j \in 1..len : cw[i][2] = cw[j][2] => i = j
          /\ new_data = [i \in 1..len |-> Record(cw[i][1], cw[i][2])]
          /\ disk = [fp \in {FullPath(cw[i][2]) : i \in 1..len} |->
                       cw[CHOOSE i \in 1..len : FullPath(cw[i][2]) = fp][1]]
          /\ \E keep \in SUBSET (1..len) : to_be_removed = PathsOf(new_data, keep)
    /\ wipFile = [exists |-> TRUE, doc |-> new_data]
    /\ deleteChoice = IF to_be_removed = <<>> THEN "?" ELSE "n"
    /\ scanPos = Len(Walk) + 1
    /\ atStart = [disk |-> disk, catalogFile |-> catalogFile, wipFile |-> wipFile,
                  run |-> 1]

NextCommit ==
    \/ CommitNothing
    \/ \E choice \in {"y", "n", ""} : CommitConfirm(choice)

SpecCommit == InitCommit /\ [][NextCommit]_vars

(***************************************************************************)
(* SpecUpdate: one run of update_catalog_locations.py                      *)
(***************************************************************************)
MaxCatalogUpdate == 2

InitUpdate ==
    InitWith({"update"},
             {MkDisk(a, x, b, l) : a \in 0..3, x \in {0, 1}, b \in 0..3, l \in {0, 1}},
             Catalogs(MaxCatalogUpdate, {1, 2, 3}),
             {<<>>},
             {TRUE})

NextUpdate ==
    \/ Load
    \/ UpdateScanStep
    \/ DetectDuplicates
    \/ UpdateCatalog

SpecUpdate == InitUpdate /\ [][NextUpdate]_vars

(***************************************************************************)
(* Claims about scoring and rescoring                                      *)
(***************************************************************************)
Candidates == {<<i, i2>> \in (1..Len(duplicates)) \X (1..2) : i2 <= Len(duplicates[i])}

\* C4 (as claimed): in every group, a candidate whose full path is exactly in
\* the favored list outscores every sibling whose full path is not.
C4_ExactFavoredDominates ==
    pc = "review" =>
        \A i \in 1..Len(duplicates) : \A x \in 1..Len(duplicates[i]), y \in 1..Len(duplicates[i]) :
            (/\ InList(duplicates[i][x].fp, dr_favored_paths)
             /\ ~InList(duplicates[i][y].fp, dr_favored_paths))
            => duplicates[i][x].s > duplicates[i][y].s

\* C5: rescoring is idempotent and history-free: in every state of the review
\* the scores and flags are those AnalyzeDupes computes from the bare groups and
\* the current favored list, and running AnalyzeDupes again changes nothing.
C5_RescoreHistoryFree ==
    pc = "review" =>
        /\ duplicates = AnalyzeDupes(Strip(duplicates), dr_favored_paths)
        /\ AnalyzeDupes(duplicates, dr_favored_paths) = duplicates

\* C5 witness: a favor command has acted and changed which candidate is kept
C5_Witness ==
    /\ pc = "review"
    /\ Len(dr_favored_paths) = 1
    /\ duplicates[1][2].s >= 1000
    /\ duplicates[1][1].r

\* C6 (amended): with no favored path, the scan-origin candidates /a/foo.txt
\* and /b/foo.txt both score (15-2) + 0 + round(10*6/7) + 4 + 0 = 26.
C6_ExampleScores26 ==
    (pc = "review" /\ dr_favored_paths = <<>>) =>
        \A c \in Candidates :
            LET d == duplicates[c[1]][c[2]]
            IN  (d.fp \in {PathAFoo, PathBFoo} /\ ~d.cat) => d.s = 26

\* C6 witness: the example group has been scored with an empty favored list
C6_Witness ==
    /\ pc = "review"
    /\ dr_favored_paths = <<>>
    /\ duplicates[2][1].fp = PathAFoo
    /\ duplicates[2][2].fp = PathBFoo
    /\ duplicates[2][1].s = duplicates[2][2].s

\* C6 (as claimed): with no favored path, /a/foo.txt and /b/foo.txt score 28.
C6_ExampleScores28 ==
    (pc = "review" /\ dr_favored_paths = <<>>) =>
        \A c \in Candidates :
            LET d == duplicates[c[1]][c[2]]
            IN  (d.fp \in {PathAFoo, PathBFoo} /\ ~d.cat) => d.s = 28

\* C7 (as claimed): in every group the kept candidate is the first one that has
\* the maximum score of the group, and every other candidate is marked removed.
C7_KeepIsFirstMax ==
    pc = "review" =>
        \A i \in 1..Len(duplicates) :
            LET g    == duplicates[i]
                best == {x \in 1..Len(g) : \A y \in 1..Len(g) : g[y].s <= g[x].s}
                first == CHOOSE x \in best : \A y \in best : x <= y
            IN  \A x \in 1..Len(g) : g[x].r = (x # first)

(***************************************************************************)
(* Claims about the scan                                                   *)
(***************************************************************************)
\* the records this scan produced: new_data past the records loaded from the
\* WIP document, and the classifier's renamed list
Produced ==
    SubSeq(new_data, Len(LoadWip(atStart.wipFile)) + 1, Len(new_data)) \o renamed

\* the discovered file is indexed by path and has the recorded size
Trusted(w) ==
    /\ FullPath(w) \in DOMAIN catalog_index
    /\ DictHas(catalog, catalog_index[FullPath(w)])
    /\ DictGet(catalog, catalog_index[FullPath(w)]).s = SizeOf(disk[FullPath(w)])

\* C3: in all three scripts, a discovered file whose path is in the path index
\* and whose live size is the recorded size of the indexed entry is never
\* handed to the hasher, and no record is produced for it by the scan.
C3_TrustedNeverHashed ==
    \A n \in 1..Len(Walk) :
        Trusted(Walk[n]) =>
            /\ ~InList(FullPath(Walk[n]), hashCalls)
            /\ \A j \in 1..Len(Produced) : FullPath(Produced[j]) # FullPath(Walk[n])

\* a scan is over in which a file was trusted although its content is no
\* longer the catalogued one, and another file was hashed
C3_Witness ==
    /\ pc = "scan"
    /\ scanPos > Len(Walk)
    /\ hashCalls # <<>>
    /\ \E n \in 1..Len(Walk) :
          Trusted(Walk[n]) /\ HashOf(disk[FullPath(Walk[n])]) # catalog_index[FullPath(Walk[n])]

(***************************************************************************)
(* Claims about deleting and committing                                    *)
(***************************************************************************)
\* C1: the files on disk differ from those at the start only after the user
\* answered yes to the delete confirmation, which is asked after the review
\* has ended; after a quit (pc = "quit"), during the review, or after the
\* answer no, nothing is deleted.
C1_DeleteOnlyAfterYes ==
    disk # atStart.disk =>
        /\ deleteChoice = "y"
        /\ pc \in {"commit_step", "done", "crashed"}

\* a review took place, the deletion was confirmed and files are gone
C1_Witness ==
    /\ pc = "done"
    /\ duplicates # <<>>
    /\ deleteChoice = "y"
    /\ disk # atStart.disk
    /\ \A fp \in DOMAIN atStart.disk \ DOMAIN disk : InList(fp, to_be_removed)

\* C2 (as amended): when the commit confirmation is asked and declined, the
\* run ends with the persisted catalog identical to the one at the start and
\* with the WIP document present and holding the scan records, whatever the
\* answer to the delete confirmation and whatever is pending removal.
C2_DeclinedCommitKeepsAll ==
    (pc = "done" /\ commitChoice = "n") =>
        /\ catalogFile = atStart.catalogFile
        /\ wipFile = [exists |-> TRUE, doc |-> new_data]
        /\ new_data # <<>>

\* files were deleted on yes, then the commit was declined
C2_Witness ==
    /\ pc = "done"
    /\ commitChoice = "n"
    /\ deleteChoice = "y"
    /\ disk # atStart.disk

\* C2 (as stated): whenever the delete confirmation or the commit
\* confirmation is declined, the run ends with the persisted catalog
\* identical to the one at the start and the WIP document present and
\* holding the scan records.
C2_AnyDeclineKeepsAll ==
    (pc = "done" /\ (deleteChoice = "n" \/ commitChoice = "n")) =>
        /\ catalogFile = atStart.catalogFile
        /\ wipFile = [exists |-> TRUE, doc |-> new_data]

\* the name, directory and size of a record
Fps(i) == [f |-> i.f, p |-> i.p, s |-> i.s]

\* the first record of the list that carries the hash
FirstWith(records, hash) ==
    records[CHOOSE i \in 1..Len(records) :
               records[i].h = hash /\ \A j \in 1..(i - 1) : records[j].h # hash]

\* the commit of all the records to an empty catalog was confirmed
CommittedAllToEmpty ==
    /\ pc = "done"
    /\ commitChoice = "y"
    /\ ~atStart.catalogFile.exists
    /\ to_be_removed = <<>>

NotExcluded == SelectSeq(new_data, LAMBDA i : ~InList(FullPath(i), to_be_removed))

\* C9: after a confirmed commit every key of the catalog before the commit
\* still has its filename, directory and size; the keys are those before the
\* commit and the hashes of the records that are not excluded; and a new key
\* has the filename, directory and size of the first such record.
C9_FirstWriterWins ==
    (pc = "done" /\ commitChoice = "y") =>
        LET before == LoadCatalog(atStart.catalogFile)
            after  == LoadCatalog(catalogFile)
        IN  /\ catalog = after
            /\ \A k \in DictKeys(before) : DictGet(after, k) = DictGet(before, k)
            /\ DictKeys(after) =
                  DictKeys(before) \cup {NotExcluded[i].h : i \in 1..Len(NotExcluded)}
            /\ \A k \in DictKeys(after) \ DictKeys(before) :
                  DictGet(after, k) = Fps(FirstWith(NotExcluded, k))

\* a record with a catalogued hash and another location was reported, and an
\* excluded record's hash did not become a key
C9_Witness ==
    /\ pc = "done"
    /\ commitChoice = "y"
    /\ \E i \in 1..Len(NotExcluded) :
          /\ DictHas(LoadCatalog(atStart.catalogFile), NotExcluded[i].h)
          /\ DictGet(catalog, NotExcluded[i].h) # Fps(NotExcluded[i])
    /\ \E i \in 1..Len(new_data) :
          InList(FullPath(new_data[i]), to_be_removed) /\ ~DictHas(catalog, new_data[i].h)

(***************************************************************************)
(* Claims about the reconciler                                             *)
(***************************************************************************)
\* C10: from the load on, the keys of the reconciler's catalog are the keys
\* loaded at the start, and so are the keys of the catalog it writes.
C10_KeysPreserved ==
    (prog = "update" /\ pc # "start") =>
        /\ DictKeys(catalog) = DictKeys(LoadCatalog(atStart.catalogFile))
        /\ pc = "done" => DictKeys(LoadCatalog(catalogFile)) = DictKeys(catalog)

\* an entry was relocated while a record with an unknown hash was at hand
C10_Witness ==
    /\ prog = "update"
    /\ pc = "done"
    /\ atStart.catalogFile.exists
    /\ catalogFile # atStart.catalogFile
    /\ \E i \in 1..Len(new_data) :
          /\ ~DictHas(catalog, new_data[i].h)
          /\ ~InList(FullPath(new_data[i]), duplicates_found)

\* the entries of the loaded catalog that record size s, and those of them
\* whose recorded file is not on disk
EntriesOfSize(s) ==
    LET cat == LoadCatalog(atStart.catalogFile)
    IN  {i \in 1..Len(cat) : cat[i].v.s = s}

MissingOfSize(s) ==
    LET cat == LoadCatalog(atStart.catalogFile)
    IN  {i \in EntriesOfSize(s) : FullPath(cat[i].v) \notin DOMAIN disk}

\* the walked file n has size s and is examined by the scan: it is not one of
\* the scripts' own documents and is not matched by path and size
Unmatched(n, s) ==
    /\ ~IsIgnored(Walk[n].f)
    /\ SizeOf(disk[FullPath(Walk[n])]) = s
    /\ ~Trusted(Walk[n])

\* C11: in the reconciler, when exactly two entries of the catalog record size
\* s and exactly one of their files is missing, every scanned file of size s
\* that is not matched by path and size gets a record with the hash of the
\* missing entry, and the hasher is not called for it.
C11_ResolvedToMissing ==
    (prog = "update" /\ pc \in {"scan", "update_step"}) =>
        \A s \in {SizeOf(c) : c \in 1..3} :
            (Cardinality(EntriesOfSize(s)) = 2 /\ Cardinality(MissingOfSize(s)) = 1) =>
                LET cat == LoadCatalog(atStart.catalogFile)
                    m   == CHOOSE i \in MissingOfSize(s) : TRUE
                IN  \A n \in 1..(scanPos - 1) :
                        Unmatched(n, s) =>
                            /\ ~InList(FullPath(Walk[n]), hashCalls)
                            /\ \E j \in 1..Len(new_data) :
                                  new_data[j] = [h |-> cat[m].k, f |-> Walk[n].f,
                                                 p |-> Walk[n].p, s |-> s]

\* the scan is over and a file was resolved that way
C11_Witness ==
    /\ prog = "update"
    /\ pc = "update_step"
    /\ \E s \in {SizeOf(c) : c \in 1..3} :
          /\ Cardinality(EntriesOfSize(s)) = 2
          /\ Cardinality(MissingOfSize(s)) = 1
          /\ \E n \in 1..Len(Walk) : Unmatched(n, s)

(***************************************************************************)
(* Claims about the grouping step                                          *)
(***************************************************************************)
\* the groups exist: the grouping step has run
Grouped == prog = "catalog" /\ pc \in {"review", "quit", "delete_step", "commit_step", "done"}

\* the candidates of a group that come from the catalog, and from the scan
CatOf(g) == {i2 \in 1..Len(g) : g[i2].cat}

ScanOf(g) == {i2 \in 1..Len(g) : ~g[i2].cat}

\* every candidate of the group stands for the hash: a scan candidate is the
\* path of a record with that hash, a catalog candidate the recorded path of
\* the catalog entry of that hash
SharesHash(g, hash) ==
    /\ \A i2 \in ScanOf(g) :
          \E j \in 1..Len(new_data) : new_data[j].h = hash /\ FullPath(new_data[j]) = g[i2].fp
    /\ \A i2 \in CatOf(g) :
          DictHas(LoadCatalog(atStart.catalogFile), hash)
          /\ FullPath(DictGet(LoadCatalog(atStart.catalogFile), hash)) = g[i2].fp

GroupSizeOk == Grouped => \A i \in 1..Len(duplicates) : Len(duplicates[i]) >= 2

GroupOriginsOk ==
    Grouped => \A i \in 1..Len(duplicates) :
        /\ Cardinality(CatOf(duplicates[i])) <= 1
        /\ Cardinality(ScanOf(duplicates[i])) >= 1

GroupHashOk ==
    Grouped => \A i \in 1..Len(duplicates) :
        \E j \in 1..Len(new_data) : SharesHash(duplicates[i], new_data[j].h)

\* C12: every group built by the grouping step has at least 2 candidates, at
\* most one of them from the catalog and at least one from the scan, all for
\* one hash, whether catalog duplicates are included or ignored.
C12_GroupsWellFormed == GroupSizeOk /\ GroupOriginsOk /\ GroupHashOk

\* the record's hash is a key of the catalog and the file the entry records
\* is not on disk when the groups are built
CatalogFileGone(i) ==
    LET cat == LoadCatalog(atStart.catalogFile)
    IN  /\ DictHas(cat, i.h)
        /\ FullPath(DictGet(cat, i.h)) \notin DOMAIN atStart.disk

\* C13: every scan record whose hash is a catalog key and whose catalog entry
\* records a path that is not on disk is listed in to_be_removed and is a
\* scan candidate of no group, also when several records share the hash.
C13_GoneRoutedToRemoval ==
    Grouped =>
        \A j \in 1..Len(new_data) :
            CatalogFileGone(new_data[j]) =>
                /\ InList(FullPath(new_data[j]), to_be_removed)
                /\ \A i \in 1..Len(duplicates) : \A i2 \in ScanOf(duplicates[i]) :
                      duplicates[i][i2].fp # FullPath(new_data[j])

\* two records share the hash of a catalog entry whose file is gone
C13_Witness ==
    /\ Grouped
    /\ \E j \in 1..Len(new_data), k \in 1..Len(new_data) :
          /\ j # k
          /\ new_data[j].h = new_data[k].h
          /\ CatalogFileGone(new_data[j])

(***************************************************************************)
(* More claims about deleting                                              *)
(***************************************************************************)
\* C14: after a confirmed deletion every listed path is gone from the disk,
\* whether or not it existed, every other file is as it was, and the delete
\* step ended without an error (the run is at the commit step or beyond).
C14_MissingPathSkipped ==
    deleteChoice = "y" =>
        /\ DOMAIN disk = {fp \in DOMAIN atStart.disk : ~InList(fp, to_be_removed)}
        /\ \A fp \in DOMAIN disk : disk[fp] = atStart.disk[fp]
        /\ commitChoice = "?" => pc \in {"commit_step", "done"}

\* the list held a path that was not on disk and a path that was
C14_Witness ==
    /\ deleteChoice = "y"
    /\ \E i \in 1..Len(to_be_removed) : to_be_removed[i] \notin DOMAIN atStart.disk
    /\ \E i \in 1..Len(to_be_removed) :
          /\ to_be_removed[i] \in DOMAIN atStart.disk
          /\ \E j \in 1..(i - 1) : to_be_removed[j] \notin DOMAIN atStart.disk

\* the recorded locations of the entries of the catalog loaded at the start
CatalogPaths ==
    LET cat == LoadCatalog(atStart.catalogFile)
    IN  {FullPath(cat[i].v) : i \in 1..Len(cat)}

NoCatalogCandidate ==
    (prog = "catalog" /\ ~remove_catalog_dupes) =>
        \A i \in 1..Len(duplicates) : CatOf(duplicates[i]) = {}

NoCatalogPathPending ==
    (prog = "catalog" /\ ~remove_catalog_dupes) =>
        \A i \in 1..Len(to_be_removed) : to_be_removed[i] \notin CatalogPaths

\* C15: when catalog duplicates are ignored, no recorded location of a
\* catalog entry is ever listed in to_be_removed, and no group has a
\* catalog-origin candidate.
C15_CatalogFilesProtected == NoCatalogCandidate /\ NoCatalogPathPending

(***************************************************************************)
(* Claims about the catalog and the WIP document in a pipeline run         *)
(***************************************************************************)
\* C16: in a run of the pipeline, until the commit has been confirmed the
\* catalog in memory is the catalog loaded at the start and the catalog
\* document is the one of the start: scan, checkpoints, grouping, review
\* commands (favor, unfavor, cursor keys, quit) and the deletion leave both
\* alone.
C16_CatalogOnlyByCommit ==
    (prog = "catalog" /\ commitChoice # "y") =>
        /\ catalogFile = atStart.catalogFile
        /\ pc # "start" => catalog = LoadCatalog(atStart.catalogFile)

\* a run with records to commit went through a review with a favored path and
\* a moved cursor, deleted files, and reached the commit step
C16_Witness ==
    /\ prog = "catalog"
    /\ pc = "commit_step"
    /\ dr_favored_paths # <<>>
    /\ current_position > 0
    /\ disk # atStart.disk
    /\ wipFile.exists
    /\ NewCatEntries # <<>>

\* the record's hash is a key of the catalog document
InPersistedCatalog(i) == DictHas(LoadCatalog(catalogFile), i.h)

ResumedPaths ==
    {FullPath(LoadWip(atStart.wipFile)[j]) : j \in 1..Len(LoadWip(atStart.wipFile))}

\* C18: in a scan of the pipeline that starts from a WIP document, a
\* discovered file whose path is the path of a loaded record is not hashed
\* and gets no second record; the records have pairwise different paths.
C18_ResumedNotRehashed ==
    (prog = "catalog" /\ pc # "start") =>
        /\ \A n \in 1..Len(Walk) :
              FullPath(Walk[n]) \in ResumedPaths =>
                  /\ ~InList(FullPath(Walk[n]), hashCalls)
                  /\ \A j \in 1..Len(Produced) : FullPath(Produced[j]) # FullPath(Walk[n])
        /\ \A i \in 1..Len(new_data), j \in 1..Len(new_data) :
              FullPath(new_data[i]) = FullPath(new_data[j]) => i = j

\* the scan is over; a file with a loaded record was passed over although
\* the catalog does not vouch for it, and another file was hashed
C18_Witness ==
    /\ prog = "catalog"
    /\ pc = "scan"
    /\ scanPos > Len(Walk)
    /\ hashCalls # <<>>
    /\ \E n \in 1..Len(Walk) : FullPath(Walk[n]) \in ResumedPaths /\ ~Trusted(Walk[n])

(***************************************************************************)
(* More claims about the reconciler                                        *)
(***************************************************************************)
\* C19: after a run of the reconciler, the catalog entry of the hash of every
\* record whose path was reported as a duplicate has the filename, directory
\* and size it had at the start, in memory and in the written document; and
\* the files on disk are those of the start.
C19_DuplicatesNotUpdated ==
    prog = "update" =>
        /\ disk = atStart.disk
        /\ pc = "done" =>
              \A j \in 1..Len(new_data) :
                  (InList(FullPath(new_data[j]), duplicates_found)
                      /\ DictHas(LoadCatalog(atStart.catalogFile), new_data[j].h)) =>
                      /\ DictGet(catalog, new_data[j].h) =
                            DictGet(LoadCatalog(atStart.catalogFile), new_data[j].h)
                      /\ DictGet(LoadCatalog(catalogFile), new_data[j].h) =
                            DictGet(LoadCatalog(atStart.catalogFile), new_data[j].h)

\* two files were reported for one catalogued hash, neither at the recorded
\* location
C19_Witness ==
    /\ prog = "update"
    /\ pc = "done"
    /\ Len(duplicates_found) >= 2
    /\ \A j \in 1..Len(new_data) :
          InList(FullPath(new_data[j]), duplicates_found) =>
              FullPath(DictGet(catalog, new_data[j].h)) # FullPath(new_data[j])

\* a is the beginning of b
IsPrefix(a, b) == Len(a) <= Len(b) /\ SubSeq(b, 1, Len(a)) = a

\* C20: during the scan of the pipeline the WIP document, when it exists,
\* holds a prefix of the records in memory; when the traversal is over and
\* the records are about to be grouped, it exists and holds all of them,
\* whether or not any checkpoint interval had elapsed.
C20_CheckpointConsistency ==
    prog = "catalog" =>
        /\ (pc = "scan" /\ wipFile.exists) => IsPrefix(wipFile.doc, new_data)
        /\ pc = "identify" => wipFile = [exists |-> TRUE, doc |-> new_data]

\* the scan is over, the document is one record behind the records in memory
C20_Witness ==
    /\ prog = "catalog"
    /\ pc = "scan"
    /\ scanPos > Len(Walk)
    /\ wipFile.exists
    /\ wipFile.doc # <<>>
    /\ Len(wipFile.doc) < Len(new_data)

(***************************************************************************)
(* Claims about the terms of the score                                     *)
(***************************************************************************)
\* the depth, catalog and letters terms of a candidate's score
BaseTerms(d) ==
    LET f == PathSplit(d.fp).tail
    IN  (15 - Count(d.fp, Slash))
        + (IF d.cat THEN 5 ELSE 0)
        + Round(Cardinality({i \in 1..Len(f) : f[i] \in Alpha}) * 10, Len(f))

\* what a scored candidate got for its name, and for the favored list
PortableTerm(d) ==
    d.s - BaseTerms(d)
        - (IF InList(d.fp, dr_favored_paths) THEN 1000
           ELSE PrefixBonus(PathSplit(d.fp).head, dr_favored_paths))

FavoredTerm(d) == d.s - BaseTerms(d) - (IF IsPortableFilename(d.fp) THEN 4 ELSE 0)

\* C22: a scored candidate has the +4 of a portable name exactly when every
\* character of its filename is a letter, a digit, '.', '_' or '-'.
C22_PortableWholeName ==
    pc = "review" =>
        \A c \in Candidates :
            LET d == duplicates[c[1]][c[2]]
                f == PathSplit(d.fp).tail
            IN  PortableTerm(d) = IF \A i \in 1..Len(f) : f[i] \in PortableChar THEN 4 ELSE 0

\* C23: a scored candidate whose full path is not in the favored list has a
\* favored bonus between 0 and 100, whatever the list.
C23_PrefixBonusAtMost100 ==
    pc = "review" =>
        \A c \in Candidates :
            LET d == duplicates[c[1]][c[2]]
            IN  ~InList(d.fp, dr_favored_paths) => FavoredTerm(d) \in 0..100

(***************************************************************************)
(* Claims about what the review leaves to delete                           *)
(***************************************************************************)
\* in every group exactly one candidate is flagged keep (r = FALSE)
OneKeepPerGroup ==
    pc = "review" =>
        \A i \in 1..Len(duplicates) :
            Cardinality({i2 \in 1..Len(duplicates[i]) : ~duplicates[i][i2].r}) = 1

\* after the review is finished, every group has a candidate whose path is
\* not listed for deletion
SomeCandidateSpared ==
    (prog = "catalog" /\ pc \in {"delete_step", "commit_step", "done"}) =>
        \A i \in 1..Len(duplicates) :
            \E i2 \in 1..Len(duplicates[i]) : ~InList(duplicates[i][i2].fp, to_be_removed)

\* C26: in every state of the review each group has exactly one candidate
\* flagged keep and the others flagged for removal, and finishing the review
\* never lists every candidate of a group for deletion.
C26_OneKeptPerGroup == OneKeepPerGroup /\ SomeCandidateSpared

\* C25: after grouping, no full path is a candidate of two different groups.
C25_PathInOneGroup ==
    Grouped =>
        \A i \in 1..Len(duplicates), j \in 1..Len(duplicates) :
            i # j =>
                \A i2 \in 1..Len(duplicates[i]), j2 \in 1..Len(duplicates[j]) :
                    duplicates[i][i2].fp # duplicates[j][j2].fp

\* the hashes of a group: those of the records that are its scan candidates
GroupHashes(g) ==
    {new_data[j].h : j \in {k \in 1..Len(new_data) :
                              \E i2 \in ScanOf(g) : g[i2].fp = FullPath(new_data[k])}}

\* the review was finished, files were deleted and the commit was confirmed
ReviewedDeletedCommitted ==
    /\ prog = "catalog"
    /\ pc = "done"
    /\ duplicates # <<>>
    /\ deleteChoice = "y"
    /\ commitChoice = "y"

\* C27: after such a run, for every group the catalog document has an entry
\* for the group's hash, and the path it records is on disk.
C27_CatalogPointsAtLiveFile ==
    ReviewedDeletedCommitted =>
        \A i \in 1..Len(duplicates) : \A h \in GroupHashes(duplicates[i]) :
            /\ DictHas(LoadCatalog(catalogFile), h)
            /\ FullPath(DictGet(LoadCatalog(catalogFile), h)) \in DOMAIN disk

\* C28: in a run that follows a run with review finished, deletion confirmed
\* and commit confirmed, over the tree as that run left it, no path is ever
\* listed in to_be_removed.
C28_SecondRunRemovesNothing ==
    (prog = "catalog" /\ atStart.run > 1) => to_be_removed = <<>>

\* the record j of the reconciler carries a catalogued hash whose recorded
\* file is still on disk, at another path than the record's
CopyOfLiveEntry(j) ==
    LET cat == LoadCatalog(atStart.catalogFile)
    IN  /\ DictHas(cat, new_data[j].h)
        /\ FullPath(DictGet(cat, new_data[j].h)) \in DOMAIN disk
        /\ FullPath(DictGet(cat, new_data[j].h)) # FullPath(new_data[j])

\* C24: after a run of the reconciler, every record whose hash is a catalog
\* key while the file recorded for that entry is still on disk at another
\* path has its path in duplicates_found, and the catalog entry of that hash
\* was not relocated to the record's path.
C24_LiveEntryCopiesFlagged ==
    (prog = "update" /\ pc = "done") =>
        \A j \in 1..Len(new_data) :
            CopyOfLiveEntry(j) =>
                /\ InList(FullPath(new_data[j]), duplicates_found)
                /\ FullPath(DictGet(catalog, new_data[j].h)) # FullPath(new_data[j])

(***************************************************************************)
(* More claims about the review                                            *)
(***************************************************************************)
\* how often x occurs in list
Occurrences(list, x) == Cardinality({i \in 1..Len(list) : list[i] = x})

\* the step takes one path off the favored list, and that path is the one
\* favored last: the occurrences of every other path stay as they were
UnfavorsLastFavored ==
    /\ pc = "review"
    /\ pc' = "review"
    /\ dr_favored_paths # <<>>
    /\ Len(dr_favored_paths') < Len(dr_favored_paths)
    /\ LET p == dr_favored_paths[Len(dr_favored_paths)]
       IN  \A j \in 1..Len(dr_favored_paths) :
               dr_favored_paths[j] # p =>
                   Occurrences(dr_favored_paths', dr_favored_paths[j])
                       = Occurrences(dr_favored_paths, dr_favored_paths[j])

\* C29: when the path p favored last (list L followed by p) is unfavored, the
\* scores and flags of all candidates are those AnalyzeDupes computes from L
\* alone, also when p occurs in L.
C29_FavorUnfavorRestores ==
    [][UnfavorsLastFavored =>
          duplicates' = AnalyzeDupes(Strip(duplicates),
                                     SubSeq(dr_favored_paths, 1, Len(dr_favored_paths) - 1))]_vars

\* the path that decides the group was favored while it was in the list
\* already
C29_Witness ==
    /\ pc = "review"
    /\ Len(dr_favored_paths) = 2
    /\ dr_favored_paths[1] = dr_favored_paths[2]
    /\ \E i2 \in 1..Len(duplicates[1]) :
          /\ duplicates[1][i2].fp = dr_favored_paths[1]
          /\ ~duplicates[1][i2].r
          /\ AnalyzeDupes(Strip(duplicates), <<>>)[1][i2].r

(***************************************************************************)
(* The reconciler on a tree of moved, renamed and deleted files            *)
(***************************************************************************)
\* the files on disk that the scripts do not skip by extension
LiveFiles == {w \in PoolFiles : FullPath(w) \in DOMAIN disk /\ ~IsIgnored(w.f)}

\* the tree differs from the catalog by moves, renames and deletions only:
\* every file has the content of a catalog entry, no two files have the same
\* content, and a file at the recorded path of an entry is that entry's file
MovesAndDeletionsOnly ==
    LET cat == LoadCatalog(atStart.catalogFile)
    IN  /\ \A w \in LiveFiles : DictHas(cat, HashOf(disk[FullPath(w)]))
        /\ \A w1 \in LiveFiles, w2 \in LiveFiles :
              disk[FullPath(w1)] = disk[FullPath(w2)] => w1 = w2
        /\ \A i \in 1..Len(cat) :
              FullPath(cat[i].v) \in DOMAIN disk =>
                  HashOf(disk[FullPath(cat[i].v)]) = cat[i].k

\* C30: when the tree differs from the catalog by moves, renames and
\* deletions only, every record of the reconciler carries the hash of the
\* content of its file, and after the run every catalog entry that was
\* changed points at a file on disk with the content of the entry's hash.
C30_AssignedHashIsTrueHash ==
    (prog = "update" /\ MovesAndDeletionsOnly) =>
        /\ \A j \in 1..Len(new_data) :
              new_data[j].h = HashOf(disk[FullPath(new_data[j])])
        /\ pc = "done" =>
              \A i \in 1..Len(catalog) :
                  catalog[i].v # DictGet(LoadCatalog(atStart.catalogFile), catalog[i].k) =>
                      /\ FullPath(catalog[i].v) \in DOMAIN disk
                      /\ HashOf(disk[FullPath(catalog[i].v)]) = catalog[i].k

\* two entries record the size of a moved file, one of them deleted or moved
\* as well; after the run the entry of the moved file was relocated, and in
\* some such run without the hasher being called for it
C30_Witness ==
    /\ prog = "update"
    /\ pc = "done"
    /\ MovesAndDeletionsOnly
    /\ \E j \in 1..Len(new_data) :
          /\ Cardinality(EntriesOfSize(new_data[j].s)) = 2
          /\ ~InList(FullPath(new_data[j]), hashCalls)
          /\ FullPath(DictGet(catalog, new_data[j].h)) = FullPath(new_data[j])
          /\ FullPath(DictGet(LoadCatalog(atStart.catalogFile), new_data[j].h))
                # FullPath(new_data[j])

(***************************************************************************)
(* The scan across a restart                                               *)
(***************************************************************************)
\* the walked file needs a record: it is not skipped by extension, not
\* matched by path and size, not recorded in the WIP document of the first
\* start, and not at its catalogued location
NeedsRecord(w) ==
    /\ ~IsIgnored(w.f)
    /\ ~Trusted(w)
    /\ \A i \in 1..Len(LoadWip(atStart.wipFile)) :
          FullPath(LoadWip(atStart.wipFile)[i]) # FullPath(w)
    /\ ~(/\ DictHas(LoadCatalog(atStart.catalogFile), Item(w).h)
         /\ DictGet(LoadCatalog(atStart.catalogFile), Item(w).h)
               = [f |-> w.f, p |-> w.p, s |-> Item(w).s])

\* the records of a scan that runs from the first start to its end
UninterruptedRecords ==
    LET todo == SelectSeq(Walk, NeedsRecord)
    IN  LoadWip(atStart.wipFile) \o [i \in 1..Len(todo) |-> Item(todo[i])]

\* C21: when a scan has completed, after a kill and a restart or without,
\* over the tree and catalog of the first start, the records in memory are
\* the sequence a scan without interruption produces.
C21_ResumedScanSameRecords ==
    (prog = "catalog" /\ pc = "identify") => new_data = UninterruptedRecords

\* a restarted scan has completed with records taken over from the checkpoint
\* of the killed one and records it hashed itself
C21_Witness ==
    /\ prog = "catalog"
    /\ pc = "identify"
    /\ atStart.run = 2
    /\ hashCalls # <<>>
    /\ Len(new_data) > Len(LoadWip(atStart.wipFile)) + Len(hashCalls)

====
